---- MODULE Spec2Model ----
(***************************************************************************)
(* Smart_Gmail: the incremental mail synchronisation of src/main.py        *)
(* (EmailProcessor and the polling loop of main), over the IMAP source of  *)
(* src/gmail_client.py and the MongoDB store of src/db_client.py.          *)
(*                                                                         *)
(* EmailProcessor gets its two clients as arguments.  driver = "main" is   *)
(* the program as main() builds it: GmailClient, DatabaseClient and the    *)
(* polling loop.  driver = "direct" is a caller that builds an             *)
(* EmailProcessor and calls process_new_emails again and again; its        *)
(* mailbox client is GmailClient (rawPayload = FALSE: the records have no  *)
(* 'raw_email' key, and store_emails, which reads that key, fails for each *)
(* of them) or a client that differs from GmailClient in this key alone    *)
(* (rawPayload = TRUE).  DatabaseClient defines none of get_email_count,   *)
(* get_latest_email and get_all_message_ids, which main.py calls: with     *)
(* the class of src/db_client.py each call raises AttributeError           *)
(* (dbMethods = DatabaseClientMethods).  The other value of dbMethods,     *)
(* modelled for main() only, is a store client that has the three queries  *)
(* as well, each of which may fail: with it the loop of main() gets past   *)
(* its first statement.                                                    *)
(*                                                                         *)
(* Spec is the process and its restarts, FairSpec adds the fairness of the *)
(* cycle's steps, SharedSpec puts a second writer on the store, and        *)
(* FetchSpec is fetch_emails alone, called with any after_date.            *)
(*                                                                         *)
(* Instants are integers: Sub instants per second, datetime.min = 0.  A    *)
(* value of the 'received_at' field is the second d \div Sub, because the  *)
(* format '%Y-%m-%d %H:%M:%S' drops the fraction of a second.              *)
(***************************************************************************)
EXTENDS Integers, Sequences, FiniteSets, TLC

\* ------------------------------------------------------------------ bounds
MaxMsgs == 2
MaxSec == 2
MaxRestarts == 1
MaxSlept == 2

\* the instants of one second that the model tells apart (datetime has 10^6)
Sub == 2

MaxNow == (MaxSec + 1) * Sub - 1
NoDate == 0
Seconds == 1..MaxSec
Drivers == {"main", "direct"}

VARIABLES
  driver,                 \* who runs the engine: main() or a direct caller of EmailProcessor
  rawPayload,             \* whether the records of the mailbox client carry a 'raw_email' key
  dbMethods,              \* the methods the store client has
  mailbox,                \* the INBOX: mailbox[num] is the Date header of message num
  now,                    \* the wall clock, datetime.now()
  emails_db,              \* the collection db.emails, a sequence of documents
  last_check_time,        \* EmailProcessor.last_check_time
  processed_message_ids,  \* EmailProcessor.processed_message_ids
  pc,                     \* the position of the process
  new_emails,             \* process_new_emails: the list handed to store_emails
  idx,                    \* store_emails: the position of its for loop
  stored_count,           \* store_emails: stored_count
  outcome,                \* how the last call of process_new_emails ended
  cycle,                  \* what the running cycle has done so far (history)
  signal,                 \* whether the operator has interrupted the process
  eligible,               \* the messages not older than last_check_time on arrival (history)
  marked,                 \* the last call of mark_emails_processed and its result (history)
  written,                \* the last payload written for each message_id (history)
  boot,                   \* which queries of the last __init__ raised (history)
  slept,                  \* main(): the sleeps that ended since the last cycle ended (history)
  restarts                \* how often the process has been started again

vars == <<driver, rawPayload, dbMethods, mailbox, now, emails_db, last_check_time,
          processed_message_ids, pc, new_emails, idx, stored_count, outcome,
          cycle, signal, eligible, marked, written, boot, slept, restarts>>

setup == <<driver, rawPayload, dbMethods, boot, restarts>>
world == <<mailbox, now, eligible, marked>>
engine == <<last_check_time, processed_message_ids>>
locals == <<new_emails, idx, stored_count>>

\* ------------------------------------------------------------ pure helpers
datetime_min == 0

\* date.strftime('%Y-%m-%d %H:%M:%S'): the second of an instant
strftime(d) == d \div Sub

\* datetime.strptime(s, '%Y-%m-%d %H:%M:%S'): the first instant of a second
strptime(s) == s * Sub

Max(S) == CHOOSE x \in S : \A y \in S : y <= x

Range(s) == {s[i] : i \in DOMAIN s}

Ids(emails) == {emails[i].message_id : i \in DOMAIN emails}

\* the methods class DatabaseClient defines; any other attribute raises AttributeError
DatabaseClientMethods ==
  {"validate_config", "connect", "store_emails", "get_unprocessed_emails",
   "mark_emails_processed", "close"}

\* the queries of the store that main.py calls and DatabaseClient lacks
QueryMethods == {"get_email_count", "get_latest_email", "get_all_message_ids"}

AttributeError(method) == method \notin dbMethods

\* -------------------------------------------------- gmail_client.fetch_emails
\* imap.search(None, 'SINCE "dd-Mon-yyyy"'): the message numbers of the INBOX,
\* ascending.  SINCE compares days, and every instant of the model lies on
\* one day, so the search matches every message.
search == [num \in 1..Len(mailbox) |-> num]

\* the Date header of a message as a datetime: parsedate_tz/mktime_tz give a
\* whole second; a header that does not parse gives datetime.now()
parse_date(header, t) == IF header = NoDate THEN t ELSE header * Sub

\* the dictionary appended to emails for message num
email_record(num, t) ==
  [message_id  |-> num,
   received_at |-> strftime(parse_date(mailbox[num], t)),
   raw_email   |-> rawPayload]

\* the loop without its check of the date: whatever the search matched is kept
fetch_keeps_any_date(num, after_date, failed, t) == num \notin failed

\* whether the loop over message_list keeps message num: its retrieval did
\* not raise, and it is not older than after_date
fetch_keeps(num, after_date, failed, t) ==
  /\ num \notin failed
  /\ ~(parse_date(mailbox[num], t) < after_date)

\* fetch_emails(max_results=None, after_date): failed are the message numbers
\* whose imap.fetch raised, t is the clock
fetch_emails(after_date, failed, t) ==
  LET Keeps(num) == fetch_keeps(num, after_date, failed, t)
      kept == SelectSeq(search, Keeps)
  IN  [i \in 1..Len(kept) |-> email_record(kept[i], t)]

\* ------------------------------------------------------ db_client (MongoDB)
\* the positions of the documents of a collection that match {'message_id': id}
Matches(coll, id) == {i \in DOMAIN coll : coll[i].message_id = id}

\* a document that is stored as processed already
document_processed(email) ==
  [message_id  |-> email.message_id,
   received_at |-> email.received_at,
   processed   |-> TRUE]

\* the document store_emails prepares for an email ('created_at' is
\* datetime.utcnow(), never equal for two calls, and is left out)
document(email) ==
  [message_id  |-> email.message_id,
   received_at |-> email.received_at,
   processed   |-> FALSE]

\* insert_one in the place of the upsert
insert_one(coll, id, doc) == Append(coll, doc)

\* an upsert that leaves a matching document as it is
update_one_if_absent(coll, id, doc) ==
  IF Matches(coll, id) = {} THEN Append(coll, doc) ELSE coll

\* collection.update_one({'message_id': id}, {'$set': doc}, upsert=True)
update_one(coll, id, doc) ==
  IF Matches(coll, id) = {}
  THEN Append(coll, doc)
  ELSE LET i == CHOOSE j \in Matches(coll, id) : \A k \in Matches(coll, id) : j <= k
       IN  [coll EXCEPT ![i] = doc]

\* result.upserted_id or result.modified_count: a document was inserted, or a
\* matched one was changed ('created_at' changes whenever one is matched)
upsert_counts(coll, id) ==
  LET upserted_id == Matches(coll, id) = {}
      modified_count == IF Matches(coll, id) = {} THEN 0 ELSE 1
  IN  upserted_id \/ modified_count > 0

\* email['raw_email'] raises KeyError when the record has no such key
KeyError(email) == ~email.raw_email

\* the positions of the documents that match {'message_id': {'$in': email_ids}}
MatchesIn(coll, email_ids) == {i \in DOMAIN coll : coll[i].message_id \in email_ids}

\* collection.update_many({'message_id': {'$in': email_ids}},
\*                        {'$set': {'processed': True}})
update_many(coll, email_ids) ==
  [i \in DOMAIN coll |->
     IF i \in MatchesIn(coll, email_ids)
     THEN [coll[i] EXCEPT !.processed = TRUE] ELSE coll[i]]

\* result.matched_count in the place of result.modified_count
matched_count(coll, email_ids) == Cardinality(MatchesIn(coll, email_ids))

\* result.modified_count: the matched documents that the update changed
modified_count(coll, email_ids) ==
  Cardinality({i \in MatchesIn(coll, email_ids) : ~coll[i].processed})

\* what mark_emails_processed(email_ids) returns on the collection coll;
\* raised says whether update_many raised PyMongoError
mark_emails_processed(coll, email_ids, raised) ==
  IF email_ids = {} THEN TRUE
  ELSE IF raised THEN FALSE
  ELSE modified_count(coll, email_ids) > 0

\* ------------------------------------------------------------ bootstrap
\* the store's most recently received document, none for an empty store
get_latest_email(coll) ==
  IF coll = <<>> THEN <<>>
  ELSE <<CHOOSE d \in Range(coll) : \A e \in Range(coll) : e.received_at <= d.received_at>>

\* the set of the identifiers in the store
get_all_message_ids(coll) == {coll[i].message_id : i \in DOMAIN coll}

\* EmailProcessor._get_last_check_time: any exception gives datetime.min;
\* raised says whether the query of the store raises
get_last_check_time(coll, raised) ==
  IF AttributeError("get_latest_email") \/ raised THEN datetime_min
  ELSE IF get_latest_email(coll) # <<>>
       THEN strptime(get_latest_email(coll)[1].received_at)
       ELSE datetime_min

\* EmailProcessor._get_processed_message_ids: any exception gives set();
\* raised says whether the query of the store raises
get_processed_message_ids(coll, raised) ==
  IF AttributeError("get_all_message_ids") \/ raised THEN {}
  ELSE get_all_message_ids(coll)

\* ------------------------------------------------------------------ state
NoCycle == [time |-> datetime_min, ids |-> {}, fetched |-> {}, calls |-> {},
            ok |-> {}, replaced |-> {}, reset |-> {}, faulted |-> {}]

\* mark_emails_processed has not been called
NoMark == [ids |-> {}, raised |-> FALSE, result |-> TRUE]

Init ==
  /\ driver \in Drivers
  /\ rawPayload \in BOOLEAN
  /\ driver = "main" => ~rawPayload      \* main() builds GmailClient
  /\ dbMethods \in {DatabaseClientMethods, DatabaseClientMethods \cup QueryMethods}
  /\ driver = "direct" => dbMethods = DatabaseClientMethods
  /\ mailbox = <<>>
  /\ now = Sub
  /\ emails_db = <<>>
  /\ \E time_raised, ids_raised \in BOOLEAN :
       /\ last_check_time = get_last_check_time(<<>>, time_raised)
       /\ processed_message_ids = get_processed_message_ids(<<>>, ids_raised)
       /\ boot = [time |-> AttributeError("get_latest_email") \/ time_raised,
                  ids |-> AttributeError("get_all_message_ids") \/ ids_raised]
  /\ pc = IF driver = "main" THEN "stats" ELSE "idle"
  /\ new_emails = <<>>
  /\ idx = 0
  /\ stored_count = 0
  /\ outcome = "none"
  /\ cycle = NoCycle
  /\ signal = FALSE
  /\ eligible = {}
  /\ marked = NoMark
  /\ written = {}
  /\ slept = -1                          \* no cycle has ended in this process
  /\ restarts = 0

\* ------------------------------------------- EmailProcessor.process_new_emails
\* no filter against processed_message_ids
filter_none(emails, seen) == emails

\* the emails whose message_id is not in processed_message_ids, in order
filter_new(emails, seen) ==
  LET IsNew(email) == email.message_id \notin seen
  IN  SelectSeq(emails, IsNew)

\* the update of last_check_time without the test of stored_count
advance_time_always(emails, count, old) == strptime(emails[1].received_at)

\* last_check_time after store_emails returned count for the list emails
advance_time(emails, count, old) ==
  IF count > 0 THEN strptime(emails[1].received_at) ELSE old

\* processed_message_ids after store_emails returned count for the list emails
advance_ids(emails, count, old) ==
  IF count > 0 THEN old \cup Ids(emails) ELSE old

\* a pass that raised ends the loop
after_pass_abort(raised, i, n) == IF raised \/ i = n THEN "advance" ELSE "store"

\* where store_emails goes after the pass for emails[i] of n, whether the
\* pass raised or not: 'continue', and 'return stored_count' after the last
after_pass(raised, i, n) == IF i = n THEN "advance" ELSE "store"

\* the call ends (by return or by raising) and control is back in the caller:
\* main() sleeps, in the try block or in its 'except Exception' handler
Return(how) ==
  /\ outcome' = how
  /\ pc' = IF driver = "main"
           THEN (IF how = "raised" THEN "sleep_err" ELSE "sleep_ok")
           ELSE "idle"
  /\ new_emails' = <<>>
  /\ idx' = 0
  /\ stored_count' = 0
  /\ cycle' = NoCycle
  /\ slept' = IF driver = "main" THEN 0 ELSE slept

\* process_new_emails is entered
Enter ==
  /\ pc' = "fetch"
  /\ outcome' = "running"
  /\ cycle' = [NoCycle EXCEPT !.time = last_check_time,
                              !.ids = processed_message_ids]

\* a caller other than main() calls processor.process_new_emails()
Call ==
  /\ driver = "direct"
  /\ pc = "idle"
  /\ Enter
  /\ UNCHANGED <<setup, world, emails_db, written, engine, locals, signal, slept>>

\* lines 57-76: fetch, return on an empty result, filter, return on an empty
\* filtered list, else call store_emails; failed are the messages whose
\* retrieval raised inside fetch_emails
FetchWith(failed) ==
  /\ pc = "fetch"
  /\ LET emails == fetch_emails(last_check_time, failed, now)
         new == filter_new(emails, processed_message_ids)
     IN  IF emails = <<>> \/ new = <<>>
         THEN Return("returned")
         ELSE /\ pc' = "store"
              /\ new_emails' = new
              /\ idx' = 1
              /\ stored_count' = 0
              /\ cycle' = [cycle EXCEPT !.fetched = Ids(emails)]
              /\ UNCHANGED <<outcome, slept>>
  /\ UNCHANGED <<setup, world, emails_db, written, engine, signal>>

Fetch == \E failed \in SUBSET (1..Len(mailbox)) : FetchWith(failed)

\* a failed fetch that still moves last_check_time, to the time of the fetch
FetchRaises_advances ==
  /\ pc = "fetch"
  /\ Return("raised")
  /\ last_check_time' = strptime(strftime(now))
  /\ UNCHANGED <<setup, world, emails_db, written, processed_message_ids, signal>>

\* fetch_emails raises (imap.select or imap.search failed): logged and raised
\* again by process_new_emails, lines 107-109
FetchRaises ==
  /\ pc = "fetch"
  /\ Return("raised")
  /\ UNCHANGED <<setup, world, emails_db, written, engine, signal>>

\* one pass of the for loop of store_emails, for emails[idx]; fault says
\* whether update_one raises
Store(fault) ==
  /\ pc = "store"
  /\ LET email == new_emails[idx]
         id == email.message_id
         doc == document(email)
     IN  /\ IF KeyError(email)
            THEN UNCHANGED <<emails_db, written, stored_count, cycle>>
            ELSE IF fault
            THEN /\ cycle' = [cycle EXCEPT !.calls = @ \cup {id},
                                           !.faulted = @ \cup {id}]
                 /\ UNCHANGED <<emails_db, written, stored_count>>
            ELSE /\ emails_db' = update_one(emails_db, id, doc)
                 /\ written' = {d \in written : d.message_id # id} \cup {doc}
                 /\ stored_count' = IF upsert_counts(emails_db, id)
                                    THEN stored_count + 1 ELSE stored_count
                 /\ cycle' = [cycle EXCEPT
                      !.calls = @ \cup {id},
                      !.ok = @ \cup {id},
                      !.replaced = IF \E i \in Matches(emails_db, id) : emails_db[i] # doc
                                   THEN @ \cup {id} ELSE @,
                      !.reset = IF \E i \in Matches(emails_db, id) : emails_db[i].processed
                                THEN @ \cup {id} ELSE @]
         /\ pc' = after_pass(KeyError(email) \/ fault, idx, Len(new_emails))
  /\ idx' = idx + 1
  /\ UNCHANGED <<setup, world, engine, new_emails, outcome, signal, slept>>

StoreOne == \E fault \in BOOLEAN : Store(fault)

\* lines 79-105: store_emails has returned stored_count
Advance ==
  /\ pc = "advance"
  /\ last_check_time' = advance_time(new_emails, stored_count, last_check_time)
  /\ processed_message_ids' =
       advance_ids(new_emails, stored_count, processed_message_ids)
  /\ Return("returned")
  /\ UNCHANGED <<setup, world, emails_db, written, signal>>

\* ---------------------------------------------------------------- main()
\* an error of the statistics query that ends the loop
MainStats_fatal ==
  /\ driver = "main"
  /\ pc = "stats"
  /\ pc' = "stopped"
  /\ outcome' = "stats_failed"
  /\ UNCHANGED <<setup, world, emails_db, written, engine, locals, cycle, signal, slept>>

\* the head of the try block of the while loop, lines 130-139:
\* db_client.get_email_count() raises, which the handler of line 149 logs
\* before it sleeps, or gives the statistics, and then
\* processor.process_new_emails() is called
MainStats ==
  /\ driver = "main"
  /\ pc = "stats"
  /\ \E raised \in BOOLEAN :
       IF AttributeError("get_email_count") \/ raised
       THEN /\ pc' = "sleep_err"
            /\ outcome' = "stats_failed"
            /\ UNCHANGED cycle
       ELSE Enter
  /\ UNCHANGED <<setup, world, emails_db, written, engine, locals, signal, slept>>

\* time.sleep(POLLING_INTERVAL) ends, at line 145 or at line 151, and the
\* while loop starts its next iteration
Sleep ==
  /\ pc \in {"sleep_ok", "sleep_err"}
  /\ pc' = "stats"
  /\ slept' = IF slept < 0 \/ slept = MaxSlept THEN slept ELSE slept + 1
  /\ UNCHANGED <<setup, world, emails_db, written, engine, locals, outcome, cycle,
                 signal>>

\* a KeyboardInterrupt inside process_new_emails that its handler catches like
\* an error of the cycle, so that the loop goes on
Interrupt_swallowed ==
  /\ driver = "main"
  /\ pc \in {"stats", "fetch", "store", "advance", "sleep_ok", "sleep_err"}
  /\ signal' = TRUE
  /\ IF pc \in {"fetch", "store", "advance"}
     THEN Return("raised")
     ELSE /\ pc' = IF pc = "sleep_err" THEN "killed" ELSE "stopped"
          /\ UNCHANGED <<outcome, locals, cycle, slept>>
  /\ UNCHANGED <<setup, world, emails_db, written, engine>>

\* KeyboardInterrupt: in the try block it is caught at line 146 and the loop
\* breaks; in the handler of line 149 nothing catches it and main() ends by it
Interrupt ==
  /\ driver = "main"
  /\ pc \in {"stats", "fetch", "store", "advance", "sleep_ok", "sleep_err"}
  /\ signal' = TRUE
  /\ pc' = IF pc = "sleep_err" THEN "killed" ELSE "stopped"
  /\ outcome' = IF pc \in {"fetch", "store", "advance"} THEN "interrupted" ELSE outcome
  /\ new_emails' = <<>>
  /\ idx' = 0
  /\ stored_count' = 0
  /\ cycle' = NoCycle
  /\ UNCHANGED <<setup, world, emails_db, written, engine, slept>>

\* ------------------------------------------------------------ environment
\* a message arrives in the INBOX with Date header date (NoDate: unparsable)
Arrive ==
  /\ Len(mailbox) < MaxMsgs
  /\ \E date \in {NoDate} \cup Seconds :
       /\ mailbox' = Append(mailbox, date)
       /\ eligible' = IF parse_date(date, now) >= last_check_time
                      THEN eligible \cup {Len(mailbox) + 1} ELSE eligible
  /\ UNCHANGED <<setup, now, marked, emails_db, written, engine, pc, locals, outcome,
                 cycle, signal, slept>>

\* the clock advances
Tick ==
  /\ now < MaxNow
  /\ now' = now + 1
  /\ UNCHANGED <<setup, mailbox, eligible, marked, emails_db, written, engine, pc,
                 locals, outcome, cycle, signal, slept>>

\* a start of the process that a failed query of the store aborts
Restart_aborts ==
  /\ pc \in {"idle", "stopped", "killed"}
  /\ restarts < MaxRestarts
  /\ restarts' = restarts + 1
  /\ \E time_raised, ids_raised \in BOOLEAN :
       /\ last_check_time' = get_last_check_time(emails_db, time_raised)
       /\ processed_message_ids' = get_processed_message_ids(emails_db, ids_raised)
       /\ boot' = [time |-> AttributeError("get_latest_email") \/ time_raised,
                   ids |-> AttributeError("get_all_message_ids") \/ ids_raised]
       /\ pc' = IF boot'.time \/ boot'.ids THEN "killed"
                ELSE IF driver = "main" THEN "stats" ELSE "idle"
  /\ outcome' = "none"
  /\ signal' = FALSE
  /\ slept' = -1
  /\ UNCHANGED <<driver, rawPayload, dbMethods, world, emails_db, written, locals, cycle>>

\* the process is started again over the same store: EmailProcessor.__init__
Restart ==
  /\ pc \in {"idle", "stopped", "killed"}
  /\ restarts < MaxRestarts
  /\ restarts' = restarts + 1
  /\ \E time_raised, ids_raised \in BOOLEAN :
       /\ last_check_time' = get_last_check_time(emails_db, time_raised)
       /\ processed_message_ids' = get_processed_message_ids(emails_db, ids_raised)
       /\ boot' = [time |-> AttributeError("get_latest_email") \/ time_raised,
                   ids |-> AttributeError("get_all_message_ids") \/ ids_raised]
  /\ pc' = IF driver = "main" THEN "stats" ELSE "idle"
  /\ outcome' = "none"
  /\ signal' = FALSE
  /\ slept' = -1
  /\ UNCHANGED <<driver, rawPayload, dbMethods, world, emails_db, written, locals, cycle>>

\* a consumer of the stored emails calls
\* db_client.mark_emails_processed(email_ids); raised says whether update_many
\* raises PyMongoError, applied whether the store has applied the update
MarkWith(email_ids, raised, applied) ==
  /\ emails_db' = IF email_ids = {} \/ ~applied THEN emails_db
                  ELSE update_many(emails_db, email_ids)
  /\ marked' = [ids |-> email_ids, raised |-> raised /\ email_ids # {},
                result |-> mark_emails_processed(emails_db, email_ids, raised)]
  /\ UNCHANGED <<setup, mailbox, now, eligible, written, engine, pc, locals, outcome,
                 cycle, signal, slept>>

\* any list, and an update that raises before or after the store applied it
MarkProcessed ==
  \E email_ids \in SUBSET (1..MaxMsgs), raised \in BOOLEAN, applied \in BOOLEAN :
    /\ ~raised => applied
    /\ MarkWith(email_ids, raised, applied)

\* another writer of db.emails upserts its document for a message of the
\* INBOX, with the same operation, at any point of the engine's cycle; its
\* payload differs from the engine's in 'processed'
ExternalWrite ==
  \E id \in 1..Len(mailbox) :
    LET doc == [document(email_record(id, now)) EXCEPT !.processed = TRUE]
    IN  /\ emails_db' = update_one(emails_db, id, doc)
        /\ written' = {d \in written : d.message_id # id} \cup {doc}
        /\ UNCHANGED <<setup, world, engine, pc, locals, outcome, cycle, signal, slept>>

Next ==
  \/ Call
  \/ Fetch
  \/ FetchRaises
  \/ StoreOne
  \/ Advance
  \/ MainStats
  \/ Sleep
  \/ Interrupt
  \/ Arrive
  \/ Tick
  \/ Restart

Spec == Init /\ [][Next]_vars

\* the scheduler keeps calling, the mailbox does not fail for ever, and an
\* upsert that is tried again and again succeeds in the end
FairSpec ==
  /\ Spec
  /\ WF_vars(Call)
  /\ WF_vars(MainStats)
  /\ WF_vars(Sleep)
  /\ SF_vars(FetchWith({}))
  /\ SF_vars(Store(FALSE))
  /\ WF_vars(Advance)

\* the engine under a direct caller, on a store that another writer shares:
\* the INBOX and the clock are inputs, the store starts empty
SharedInit ==
  /\ driver = "direct"
  /\ rawPayload = TRUE
  /\ dbMethods = DatabaseClientMethods
  /\ mailbox \in UNION {[1..n -> {NoDate} \cup Seconds] : n \in 0..MaxMsgs}
  /\ now \in Sub..MaxNow
  /\ emails_db = <<>>
  /\ last_check_time = get_last_check_time(<<>>, FALSE)
  /\ processed_message_ids = get_processed_message_ids(<<>>, FALSE)
  /\ boot = [time |-> AttributeError("get_latest_email"),
             ids |-> AttributeError("get_all_message_ids")]
  /\ pc = "idle"
  /\ new_emails = <<>>
  /\ idx = 0
  /\ stored_count = 0
  /\ outcome = "none"
  /\ cycle = NoCycle
  /\ signal = FALSE
  /\ eligible = DOMAIN mailbox
  /\ marked = NoMark
  /\ written = {}
  /\ slept = -1
  /\ restarts = 0

SharedNext ==
  \/ Call
  \/ Fetch
  \/ StoreOne
  \/ Advance
  \/ ExternalWrite

SharedSpec == SharedInit /\ [][SharedNext]_vars

\* the engine under a direct caller and its restarts, with a consumer that
\* marks stored emails as processed; no retrieval and no upsert fails
ConsumerInit == SharedInit /\ now = Sub

ConsumerNext ==
  \/ Call
  \/ FetchWith({})
  \/ Store(FALSE)
  \/ Advance
  \/ Restart
  \/ MarkProcessed

ConsumerSpec == ConsumerInit /\ [][ConsumerNext]_vars

\* fetch_emails by itself, called with any datetime as after_date: the INBOX,
\* the clock and the argument (held in last_check_time, from which
\* process_new_emails passes it) are inputs; idx is the position of the loop
\* over message_list and new_emails is the list 'emails'
FetchInit ==
  /\ driver = "direct"
  /\ rawPayload = FALSE
  /\ dbMethods = DatabaseClientMethods
  /\ mailbox \in UNION {[1..n -> {NoDate} \cup Seconds] : n \in 0..MaxMsgs}
  /\ now \in Sub..MaxNow
  /\ emails_db = <<>>
  /\ last_check_time \in datetime_min..MaxNow
  /\ processed_message_ids = {}
  /\ boot = [time |-> TRUE, ids |-> TRUE]
  /\ pc = IF mailbox = <<>> THEN "fetch_done" ELSE "fetch_loop"
  /\ new_emails = <<>>
  /\ idx = 1
  /\ stored_count = 0
  /\ outcome = "none"
  /\ cycle = NoCycle
  /\ signal = FALSE
  /\ eligible = {}
  /\ marked = NoMark
  /\ written = {}
  /\ slept = -1
  /\ restarts = 0

\* one pass of the for loop of fetch_emails, lines 138-185, for message
\* search[idx]; raised says whether its retrieval raises
FetchStep(raised) ==
  /\ pc = "fetch_loop"
  /\ LET num == search[idx]
     IN  new_emails' =
           IF fetch_keeps(num, last_check_time, IF raised THEN {num} ELSE {}, now)
           THEN Append(new_emails, email_record(num, now))
           ELSE new_emails
  /\ idx' = idx + 1
  /\ pc' = IF idx = Len(search) THEN "fetch_done" ELSE "fetch_loop"
  /\ UNCHANGED <<setup, world, emails_db, written, engine, stored_count, outcome,
                 cycle, signal, slept>>

FetchLoop == \E raised \in BOOLEAN : FetchStep(raised)

FetchNext ==
  \/ FetchLoop
  \/ Tick

FetchSpec == FetchInit /\ [][FetchNext]_vars

\* ------------------------------------------------------------------ claims
Stored(id) == Matches(emails_db, id) # {}

\* the received_at of the emails of the batch whose upsert succeeded
PersistedTimes ==
  {new_emails[k].received_at :
     k \in {j \in DOMAIN new_emails : new_emails[j].message_id \in cycle.ok}}

\* C1: within one process, last_check_time after a step is never less than
\* before it, whatever the mailbox returned and whichever upserts failed
C1_WatermarkMonotone ==
  [][restarts' = restarts => last_check_time' >= last_check_time]_vars

\* a cycle that stored something is about to move a watermark that an
\* earlier cycle has already moved
C1_Witness ==
  pc = "advance" /\ stored_count > 0 /\ last_check_time > datetime_min

\* C2: a cycle that moves last_check_time moves it to the newest received_at
\* among the emails whose upsert succeeded in that cycle
C2_WatermarkIsNewestPersisted ==
  [][(restarts' = restarts /\ last_check_time' # last_check_time) =>
       /\ PersistedTimes # {}
       /\ last_check_time' = strptime(Max(PersistedTimes))]_vars

\* C3: every identifier in processed_message_ids is the identifier of a
\* stored document (it was loaded from the store or its upsert succeeded)
C3_SeenOnlyPersisted == \A id \in processed_message_ids : Stored(id)

\* C4: a message that was not older than last_check_time when it arrived is
\* stored in the end, when the caller keeps calling and upserts succeed in
\* the end
C4_NoMissedMessages ==
  \A n \in 1..MaxMsgs : (driver = "direct" /\ n \in eligible) ~> Stored(n)

\* C5: the store holds at most one document per message_id, and a document
\* upserted in the running cycle holds the payload of that upsert
C5_OneRecordPerId ==
  /\ \A id \in 1..MaxMsgs : Cardinality(Matches(emails_db, id)) <= 1
  /\ \A k \in DOMAIN new_emails :
       new_emails[k].message_id \in cycle.ok =>
         \E i \in DOMAIN emails_db : emails_db[i] = document(new_emails[k])

\* an upsert has replaced a stored document that held another payload
C5_Witness == cycle.replaced # {} /\ restarts > 0

\* C6: an identifier that was in processed_message_ids when the cycle began
\* is not handed to store_emails and no update_one is called for it
C6_SeenNotUpserted ==
  \A x \in cycle.ids : x \notin cycle.calls /\ x \notin Ids(new_emails)

\* the fetch returned a seen identifier beside a new one, which was upserted
C6_Witness ==
  pc = "advance" /\ cycle.ids \cap cycle.fetched # {} /\ cycle.calls # {}

\* C7: when store_emails returns, every email of the batch has had its pass:
\* it failed by itself or it is stored, and stored_count is the number of
\* the successful upserts
C7_FailureIsolated ==
  pc = "advance" =>
    /\ idx = Len(new_emails) + 1
    /\ \A k \in DOMAIN new_emails :
         \/ KeyError(new_emails[k])
         \/ new_emails[k].message_id \in cycle.faulted
         \/ /\ new_emails[k].message_id \in cycle.ok
            /\ \E i \in DOMAIN emails_db : emails_db[i] = document(new_emails[k])
    /\ stored_count = Cardinality(cycle.ok)

\* an upsert failed and a later email of the same batch was stored
C7_Witness ==
  /\ pc = "advance"
  /\ \E j, k \in DOMAIN new_emails :
       /\ j < k
       /\ new_emails[j].message_id \in cycle.faulted
       /\ new_emails[k].message_id \in cycle.ok

\* C8: a cycle whose fetch raises ends by raising into its caller, with
\* last_check_time, processed_message_ids and the store as they were when
\* the cycle began, and without a call of update_one
C8_FetchFailureKeepsState ==
  [][(outcome = "running" /\ outcome' = "raised") =>
       /\ last_check_time' = cycle.time
       /\ processed_message_ids' = cycle.ids
       /\ cycle.calls = {}
       /\ emails_db' = emails_db
       /\ pc' = IF driver = "main" THEN "sleep_err" ELSE "idle"]_vars

\* a fetch has raised in a process that had stored messages before
C8_Witness ==
  outcome = "raised" /\ last_check_time > datetime_min /\ processed_message_ids # {}

\* C9: while a cycle runs, and when it returns with stored_count = 0,
\* last_check_time and processed_message_ids are what they were when it began
C9_NothingStoredNothingMoved ==
  [][/\ outcome' = "running" =>
          last_check_time' = cycle'.time /\ processed_message_ids' = cycle'.ids
     /\ (outcome = "running" /\ outcome' = "returned" /\ stored_count = 0) =>
          last_check_time' = cycle.time /\ processed_message_ids' = cycle.ids]_vars

\* store_emails has returned 0 for a batch that was not empty
C9_Witness == pc = "advance" /\ stored_count = 0 /\ cycle.faulted # {}

\* C10: without an interrupt by the operator the loop of main() does not end:
\* an iteration that failed sleeps, and from that sleep the next iteration starts
C10_ErrorsDoNotEndLoop ==
  [][(driver = "main" /\ ~signal') =>
       /\ pc' \notin {"stopped", "killed"}
       /\ (pc = "sleep_err" /\ pc' # pc) => pc' = "stats"
       /\ (outcome' \in {"stats_failed", "raised"} /\ pc' # pc) =>
            pc' \in {"sleep_err", "stats"}]_vars

\* the loop has started an iteration after one that failed
C10_Witness ==
  driver = "main" /\ pc = "stats" /\ outcome = "stats_failed" /\ ~signal

\* C11: an iteration of the loop of main() that sleeps has called
\* process_new_emails before: no error of another statement of the iteration
\* makes it skip the cycle
C11_IterationRunsCycle ==
  pc \in {"sleep_ok", "sleep_err"} => outcome \in {"returned", "raised"}

\* C12: an interrupt does not end a cycle that is fetching or is in the loop
\* of store_emails: the cycle reaches the end of store_emails first
C12_InterruptNotMidCycle ==
  [][(pc \in {"fetch", "store"}) => (pc' \notin {"stopped", "killed"})]_vars

\* C13: after an interrupt, wherever in the loop it came, the loop of main()
\* has ended and no cycle runs or starts in that process
C13_InterruptEndsLoop ==
  signal => pc \in {"stopped", "killed"} /\ outcome # "running"

\* an interrupt has ended a process whose cycle was running
C13_Witness == signal /\ pc = "stopped" /\ outcome = "interrupted"

\* C14: when a cycle starts in main() after an earlier cycle of the process,
\* exactly one sleep has ended since that earlier cycle ended
C14_OneSleepBetweenCycles ==
  [][(driver = "main" /\ outcome # "running" /\ outcome' = "running"
        /\ slept >= 0) => slept = 1]_vars

\* C15: a start of the process completes and leaves the store as it is; if
\* the query for the latest email raised, last_check_time starts as
\* datetime.min, and if the query for the identifiers raised,
\* processed_message_ids starts empty
C15_BootstrapNeverAborts ==
  [][restarts' # restarts =>
       /\ pc' = IF driver = "main" THEN "stats" ELSE "idle"
       /\ emails_db' = emails_db
       /\ boot'.time => last_check_time' = datetime_min
       /\ boot'.ids => processed_message_ids' = {}]_vars

\* a process has started over a store that holds emails, and both queries raised
C15_Witness ==
  /\ restarts > 0
  /\ outcome = "none"
  /\ emails_db # <<>>
  /\ boot.time /\ boot.ids
  /\ pc \in {"stats", "idle"}

\* C16: with DatabaseClient as the store client, a process that has started
\* and has not run a cycle yet has the received_at of the latest stored email
\* as last_check_time (datetime.min over an empty store) and the identifiers
\* of all stored emails as processed_message_ids
C16_BootstrapFromStore ==
  (dbMethods = DatabaseClientMethods /\ outcome = "none") =>
    /\ last_check_time =
         IF emails_db = <<>> THEN datetime_min
         ELSE strptime(Max({emails_db[i].received_at : i \in DOMAIN emails_db}))
    /\ processed_message_ids = Ids(emails_db)

\* C17: when store_emails has returned, the list it was given holds exactly
\* the fetched emails whose identifier was not in processed_message_ids; if
\* every upsert succeeded, stored_count is the length of the list and
\* last_check_time becomes the newest received_at of the list
C17_NewOnesStoredAndCounted ==
  [][(pc = "advance" /\ outcome' = "returned") =>
       /\ Ids(new_emails) = cycle.fetched \ cycle.ids
       /\ cycle.ok = Ids(new_emails) =>
            /\ stored_count = Len(new_emails)
            /\ last_check_time' =
                 strptime(Max({new_emails[k].received_at : k \in DOMAIN new_emails}))]_vars

C19_OnlyProcessedChanges ==
  [][\A i \in DOMAIN emails_db :
       /\ i \in DOMAIN emails_db'
       /\ emails_db'[i].message_id = emails_db[i].message_id
       /\ emails_db'[i].received_at = emails_db[i].received_at]_vars

\* C20, as claimed: every record in the list of fetch_emails has a
\* received_at that is not before after_date
C20_ReturnedNotOlder ==
  pc \in {"fetch_loop", "fetch_done"} =>
    \A k \in DOMAIN new_emails :
      strptime(new_emails[k].received_at) >= last_check_time

\* C20, amended: every record in the list of fetch_emails has a received_at
\* that is not before the second of after_date, and not before after_date when
\* after_date is a whole second; a pass of the loop for a message dated before
\* after_date adds nothing, and every pass, also one whose retrieval raised,
\* adds the record of its message or nothing and goes on with the loop
C20_ReturnedNotOlderToTheSecond ==
  /\ [](pc \in {"fetch_loop", "fetch_done"} =>
         \A k \in DOMAIN new_emails :
           /\ new_emails[k].received_at >= strftime(last_check_time)
           /\ last_check_time = strptime(strftime(last_check_time)) =>
                strptime(new_emails[k].received_at) >= last_check_time)
  /\ [][(pc = "fetch_loop" /\ idx' # idx) =>
          /\ parse_date(mailbox[search[idx]], now) < last_check_time =>
               new_emails' = new_emails
          /\ \/ new_emails' = new_emails
             \/ new_emails' = Append(new_emails, email_record(search[idx], now))
          /\ pc' = IF idx = Len(search) THEN "fetch_done" ELSE "fetch_loop"]_vars

\* a call whose after_date is no whole second has returned a message whose
\* date fell into the second of after_date and has dropped an older one
C20_Witness ==
  /\ pc = "fetch_done"
  /\ last_check_time # strptime(strftime(last_check_time))
  /\ \E k \in DOMAIN new_emails : new_emails[k].received_at = strftime(last_check_time)
  /\ \E num \in DOMAIN mailbox :
       /\ mailbox[num] # NoDate
       /\ parse_date(mailbox[num], now) < last_check_time
       /\ num \notin Ids(new_emails)

\* C21: an upsert of store_emails that succeeds leaves the record of its
\* message_id with processed = False, also when the record was there before
\* with processed = True
C21_UpsertLeavesUnprocessed ==
  [][(pc = "store" /\ idx' = idx + 1 /\ cycle'.ok # cycle.ok) =>
       /\ Matches(emails_db', new_emails[idx].message_id) # {}
       /\ \A i \in Matches(emails_db', new_emails[idx].message_id) :
            ~emails_db'[i].processed]_vars

\* after a restart the engine has upserted a record again that
\* mark_emails_processed had marked, and the record is unprocessed
C21_Witness ==
  /\ restarts > 0
  /\ pc \in {"store", "advance"}
  /\ \E id \in cycle.reset :
       /\ Stored(id)
       /\ \A i \in Matches(emails_db, id) : ~emails_db[i].processed

\* a step of the consumer: the engine and its position stay as they are
MarkStep == pc' = pc /\ idx' = idx /\ restarts' = restarts

\* C22, as claimed: mark_emails_processed with an empty list returns True and
\* leaves the store; with a list that is not empty it sets processed on the
\* stored records of the list and on no other, returns True exactly if a
\* record changed, and a second call with the list would return False
C22_MarkSemantics ==
  [][MarkStep =>
       IF marked'.ids = {}
       THEN marked'.result /\ emails_db' = emails_db
       ELSE /\ emails_db' = update_many(emails_db, marked'.ids)
            /\ marked'.result <=> emails_db' # emails_db
            /\ ~mark_emails_processed(emails_db', marked'.ids, FALSE)]_vars

\* C22, amended: the same for every call in which update_many does not
\* raise; a call in which it raises returns False, and the store is as it
\* was or as the update leaves it
C22_MarkSemanticsUnlessRaised ==
  [][MarkStep =>
       IF marked'.ids = {}
       THEN marked'.result /\ emails_db' = emails_db
       ELSE IF marked'.raised
       THEN /\ ~marked'.result
            /\ emails_db' \in {emails_db, update_many(emails_db, marked'.ids)}
       ELSE /\ emails_db' = update_many(emails_db, marked'.ids)
            /\ marked'.result <=> emails_db' # emails_db
            /\ ~mark_emails_processed(emails_db', marked'.ids, FALSE)]_vars

\* a call that did not raise has returned False for a list whose stored
\* record was processed already, beside a record that is not in the list
\* and is still unprocessed
C22_Witness ==
  /\ marked.ids # {} /\ ~marked.raised /\ ~marked.result
  /\ \E i \in MatchesIn(emails_db, marked.ids) : emails_db[i].processed
  /\ \E i \in DOMAIN emails_db :
       emails_db[i].message_id \notin marked.ids /\ ~emails_db[i].processed
====
